---- MODULE Spec2Model ----
(***************************************************************************)
(* The placement core of the breakout scheduler (src/scheduler.py):        *)
(* greedy_place_wgroups (randomised-retry first fit of the working groups  *)
(* into an empty grid) and fill_bofs (one first-fit pass of the BOFs over  *)
(* a copy of a partly occupied grid), driven by the dispatcher's three     *)
(* modes (working groups only, BOFs only over a schedule read from a file, *)
(* both phases).                                                           *)
(*                                                                         *)
(* A grid is grid[block][room], blocks 0..NUM_BLOCKS-1 and rooms           *)
(* 0..NUM_ROOMS-1, each cell None or a session name.  A request is the     *)
(* pair (name, length) of the source, written [name, length].  Every       *)
(* random draw of the source (random.sample, random.shuffle) is a          *)
(* nondeterministic choice over all of its outcomes.                       *)
(***************************************************************************)
EXTENDS Integers, Sequences, FiniteSets, TLC

\* Bounds of the model: the largest configured grid, the largest number of
\* requests of a run and the largest retry budget that Init draws.
MaxBlocks == 3
MaxRooms == 2
MaxReqs == 3
MaxTries == 2
\* Bounds of the specification of the permutations loop: the largest value
\* of -p and the largest number of blocks of its grids.
MaxPerms == 2
MaxLoopBlocks == 2
\* Bounds of the specification of the readers: the largest num_sessions of
\* a configuration and the largest number of data rows of a request file.
MaxSessions == 2
MaxRows == 2

VARIABLES
    NUM_BLOCKS,     \* cfg['grid']['num_sessions'], the number of grid rows
    NUM_ROOMS,      \* the number of grid columns
    has_w,          \* -w given: working groups are scheduled
    has_b,          \* -b given: BOFs are scheduled
    wgroups,        \* the working-group requests, in submission order
    bofs,           \* the BOF requests, in submission order
    max_tries,      \* the retry budget passed to greedy_place_wgroups
    sort_strategy,  \* "largest_first" | "smallest_first" | "as_is"
    pc,             \* the position of the run
    outcome,        \* how the run ended, "running" until then
    attempt,        \* greedy_place_wgroups: the loop variable
    a_list,         \* greedy_place_wgroups: the attempt's processing order
    pos,            \* greedy_place_wgroups: index in a_list of the next request
    grid,           \* the caller's grid: the attempt's grid, then grid_wg / base_grid
    failed_name,    \* greedy_place_wgroups: the local failed_name
    last_attempts,  \* greedy_place_wgroups.last_attempts
    empty_rows,     \* greedy_place_wgroups: the returned empty_rows
    new_grid,       \* fill_bofs: the grid it writes
    shared,         \* fill_bofs: new_grid is the very list object of the caller's grid
    bof_list,       \* fill_bofs: the processing order
    bpos,           \* fill_bofs: index in bof_list of the next request
    leftovers,      \* fill_bofs: the names that found no free run
    rng_used,       \* a draw from the random generator has been made
    permutations,   \* args.permutations, the number of schedules to generate
    perm,           \* the dispatcher's loop variable perm
    files,          \* the schedule files: path -> the grid written, or NoFile
    cfg,            \* the dictionary that load_config builds
    csv,            \* the rows of the request files, by class
    row_num,        \* read_wgroups / read_bofs: the index of the next row
    wgs             \* read_wgroups / read_bofs: the list being built

vars == <<NUM_BLOCKS, NUM_ROOMS, has_w, has_b, wgroups, bofs, max_tries,
          sort_strategy, pc, outcome, attempt, a_list, pos, grid, failed_name,
          last_attempts, empty_rows, new_grid, shared, bof_list, bpos,
          leftovers, rng_used, permutations, perm, files, cfg, csv, row_num,
          wgs>>

config == <<NUM_BLOCKS, NUM_ROOMS, has_w, has_b, wgroups, bofs, max_tries,
            sort_strategy, permutations>>
primaryVars == <<attempt, a_list, pos, failed_name, last_attempts, empty_rows>>
fillVars == <<new_grid, shared, bof_list, bpos, leftovers>>
loopVars == <<perm, files>>
frontVars == <<cfg, csv, row_num, wgs>>

----------------------------------------------------------------------------
\* Values

\* Python's None: an empty cell, no failed name.
None == <<>>
\* A local that has not been assigned yet.
Unbound == <<"unbound">>
\* No grid object exists yet.
NoGrid == <<"nogrid">>
\* Session names: the i-th request of a class ("WG" or "BOF"), and a session
\* that a schedule file already holds.
SessionName(class, i) == <<class, i>>
Existing == <<"old">>

Strategies == {"largest_first", "smallest_first", "as_is"}

\* A path that names no file.
NoFile == <<"nofile">>
\* A frame that has returned, a file that is closed: the placement
\* specifications start where the dispatcher holds its request lists.
Gone == <<"gone">>

Blocks == 0 .. NUM_BLOCKS - 1
Rooms == 0 .. NUM_ROOMS - 1

CAPACITY == NUM_BLOCKS * NUM_ROOMS

RECURSIVE SumLengths(_)
SumLengths(reqs) ==
    IF reqs = <<>> THEN 0 ELSE Head(reqs).length + SumLengths(Tail(reqs))

\* [[None] * NUM_ROOMS for _ in range(NUM_BLOCKS)]
EmptyGrid == [b \in Blocks |-> [r \in Rooms |-> None]]

\* The number of cells that hold a name.
Occupied(g) == Cardinality({c \in Blocks \X Rooms : g[c[1]][c[2]] # None})

\* The cells of g that hold name.
CellsOf(g, name) == {c \in Blocks \X Rooms : g[c[1]][c[2]] = name}

----------------------------------------------------------------------------
\* Random draws and ordering

\* The bijections of 1..n.
PermsOf(n) ==
    {p \in [1 .. n -> 1 .. n] : \A i, j \in 1 .. n : i # j => p[i] # p[j]}

\* random.sample(seq, len(seq)): every permutation of seq.
Samples(seq) ==
    {[i \in 1 .. Len(seq) |-> seq[p[i]]] : p \in PermsOf(Len(seq))}

\* Mutant of RoomOrders: only the first room is ever tried.
RoomOrders_FirstRoomOnly == {<<0>>}

\* rooms = list(range(NUM_ROOMS)); random.shuffle(rooms): every room order.
RoomOrders ==
    {[i \in 1 .. NUM_ROOMS |-> p[i] - 1] : p \in PermsOf(NUM_ROOMS)}

\* Mutant of InsertByKey: x goes before the elements of its own key, so
\* equal keys end in reverse order.
RECURSIVE InsertByKey_BeforeEqual(_, _, _)
InsertByKey_BeforeEqual(sorted, x, sign) ==
    IF sorted = <<>> THEN <<x>>
    ELSE IF sign * Head(sorted).length < sign * x.length
         THEN <<Head(sorted)>> \o InsertByKey_BeforeEqual(Tail(sorted), x, sign)
         ELSE <<x>> \o sorted

\* list.sort(key): x goes behind every element whose key is not larger, so
\* equal keys keep their order (the sort is stable).
RECURSIVE InsertByKey(_, _, _)
InsertByKey(sorted, x, sign) ==
    IF sorted = <<>> THEN <<x>>
    ELSE IF sign * Head(sorted).length <= sign * x.length
         THEN <<Head(sorted)>> \o InsertByKey(Tail(sorted), x, sign)
         ELSE <<x>> \o sorted

RECURSIVE SortByKey(_, _)
SortByKey(seq, sign) ==
    IF seq = <<>> THEN <<>>
    ELSE InsertByKey(SortByKey(SubSeq(seq, 1, Len(seq) - 1), sign),
                     seq[Len(seq)], sign)

\* The strategy applied to a shuffled list.
ApplyStrategy(strategy, seq) ==
    CASE strategy = "largest_first" -> SortByKey(seq, -1)
      [] strategy = "smallest_first" -> SortByKey(seq, 1)
      [] OTHER -> seq

----------------------------------------------------------------------------
\* Randomised first fit of one request

\* Mutant of RunFree: only the first cell of the run is tested.
RunFree_FirstCellOnly(g, blk, rms, length) ==
    g[blk][rms] = None

\* all(grid[blk + offset][rms] is None for offset in range(length))
RunFree(g, blk, rms, length) ==
    \A offset \in 0 .. length - 1 : g[blk + offset][rms] = None

\* Mutant of Occupy: the write loop stops one cell short of the run, for a
\* run of more than one cell.
Occupy_OneShort(g, blk, rms, length, name) ==
    [b \in Blocks |-> [r \in Rooms |->
        IF r = rms /\ b \in blk .. blk + (IF length > 1 THEN length - 2 ELSE 0)
        THEN name ELSE g[b][r]]]

\* for offset in range(length): grid[blk + offset][rms] = name
Occupy(g, blk, rms, length, name) ==
    [b \in Blocks |-> [r \in Rooms |->
        IF r = rms /\ b \in blk .. blk + length - 1 THEN name ELSE g[b][r]]]

\* Mutant of LastStart: the range of start blocks ends one block early.
LastStart_OneEarly(length) == NUM_BLOCKS - length - 1

\* range(0, NUM_BLOCKS - length + 1): the start blocks of the candidates.
LastStart(length) == NUM_BLOCKS - length

\* No candidate was free.
NoCandidate == <<"none">>

\* The scan of the candidates (start, room) of one start block, in the room
\* order drawn for it: the first one whose run is free.
RECURSIVE FirstFreeAt(_, _, _, _, _)
FirstFreeAt(g, start, order, i, length) ==
    IF i > Len(order) THEN NoCandidate
    ELSE IF RunFree(g, start, order[i], length) THEN <<start, order[i]>>
         ELSE FirstFreeAt(g, start, order, i + 1, length)

\* Mutant of Selectable: only the candidates of the first start block are
\* built.
Selectable_FirstStartOnly(g, length, start) ==
    IF start > LastStart(length) THEN {NoCandidate}
    ELSE {FirstFreeAt(g, start, order, 1, length) : order \in RoomOrders}

\* Mutant of Selectable: the candidates of all start blocks are shuffled as
\* one list, so any free candidate can be the first.
Selectable_OneShuffle(g, length, start) ==
    LET free == {c \in (start .. LastStart(length)) \X Rooms :
                    RunFree(g, c[1], c[2], length)}
    IN  IF free = {} THEN {NoCandidate} ELSE free

\* The candidates the scan can select, over every outcome of the shuffles.
\* The candidate list holds the start blocks in increasing order, each with
\* its own shuffle of the rooms, and the scan stops at its first free
\* candidate: the selected pair is the first free one of the first start
\* block that has a free room, in the order drawn for that block (the orders
\* drawn for the other blocks arrange candidates that are all occupied or
\* are never looked at).
RECURSIVE Selectable(_, _, _)
Selectable(g, length, start) ==
    IF start > LastStart(length) THEN {NoCandidate}
    ELSE LET hits == {FirstFreeAt(g, start, order, 1, length) :
                        order \in RoomOrders}
         IN  IF hits = {NoCandidate}
             THEN Selectable(g, length, start + 1)
             ELSE hits

----------------------------------------------------------------------------
\* Inputs

Lengths == 1 .. MaxBlocks

\* The request lists of a class: up to MaxReqs requests, the i-th under the
\* class's i-th name, of any lengths.
RequestLists(class) ==
    UNION {{[i \in 1 .. n |->
                [name |-> SessionName(class, i), length |-> len[i]]] :
              len \in [1 .. n -> Lengths]} : n \in 0 .. MaxReqs}

\* What read_schedule can return: any grid of the configured size.
ScheduleFiles ==
    [Blocks -> [Rooms -> {None, Existing}]]

\* The paths of the schedule files: 0 is the path given with -s (or
\* schedule.csv), k >= 1 is that path with k put before ".csv".
Paths == 0 .. MaxPerms

\* out_path: the base path for one schedule, the numbered path otherwise.
OutPath(p) == IF permutations > 1 THEN p ELSE 0

\* The run as the dispatcher starts to place: grids of up to maxBlocks
\* blocks, -p drawn from perms.
InitOf(maxBlocks, perms) ==
    /\ NUM_BLOCKS \in 1 .. maxBlocks
    /\ NUM_ROOMS \in 1 .. MaxRooms
    /\ has_w \in BOOLEAN
    /\ has_b \in BOOLEAN
    /\ has_w \/ has_b
    /\ wgroups \in (IF has_w THEN RequestLists("WG") ELSE {<<>>})
    /\ bofs \in (IF has_b THEN RequestLists("BOF") ELSE {<<>>})
    /\ Len(wgroups) + Len(bofs) <= MaxReqs
    /\ max_tries \in (IF has_w THEN 0 .. MaxTries ELSE {1})
    /\ sort_strategy \in Strategies
    /\ pc = "main"
    /\ outcome = "running"
    /\ attempt = 0
    /\ a_list = <<>>
    /\ pos = 0
    /\ grid = NoGrid
    /\ failed_name = Unbound
    /\ last_attempts = 0
    /\ empty_rows = <<>>
    /\ new_grid = NoGrid
    /\ shared = FALSE
    /\ bof_list = <<>>
    /\ bpos = 0
    /\ leftovers = <<>>
    /\ rng_used = FALSE
    /\ permutations \in perms
    /\ perm = 1
    /\ \E content \in (IF has_b /\ ~has_w THEN ScheduleFiles ELSE {NoFile}) :
          files = [path \in Paths |-> IF path = 0 THEN content ELSE NoFile]
    /\ cfg = Gone
    /\ csv = Gone
    /\ row_num = 0
    /\ wgs = Gone

\* One schedule is asked for (-p is 1 by default).
Init == InitOf(MaxBlocks, {1})

\* The permutations loop: -p up to MaxPerms, on grids of up to MaxLoopBlocks
\* blocks.
LoopInit == InitOf(MaxLoopBlocks, 1 .. MaxPerms)

----------------------------------------------------------------------------
\* The dispatcher, before placement

\* Mutant of OverCapacity: a request set that fills the grid exactly is
\* refused too.
OverCapacity_AtCapacity(total) == total >= CAPACITY

\* total_blocks > CAPACITY
OverCapacity(total) == total > CAPACITY

\* The pre-flight check of the two-phase mode: the run ends, nothing written.
OverSubscribed ==
    /\ pc = "main"
    /\ has_w /\ has_b
    /\ SumLengths(wgroups) + SumLengths(bofs) > CAPACITY
    /\ pc' = "exit"
    /\ outcome' = "OverSubscribed"
    /\ UNCHANGED <<config, frontVars, loopVars, primaryVars, fillVars, grid,
                   rng_used>>

\* The dispatcher reaches its call of greedy_place_wgroups: after the
\* pre-flight check, and again at the head of every further permutation.
ReachesGreedy ==
    \/ /\ pc = "main"
       /\ has_w
       /\ ~(has_b /\ SumLengths(wgroups) + SumLengths(bofs) > CAPACITY)
    \/ pc = "next_perm"

\* base_grid = read_schedule(sched_path), in the BOF-only mode.
ReadSchedule ==
    /\ pc = "main"
    /\ has_b /\ ~has_w
    /\ grid' = files[0]
    /\ pc' = "schedule_read"
    /\ UNCHANGED <<config, frontVars, loopVars, primaryVars, fillVars,
                   outcome, rng_used>>

----------------------------------------------------------------------------
\* greedy_place_wgroups

\* The capacity check fails: sys.exit before the loop.
CapacityExit ==
    /\ ReachesGreedy
    /\ OverCapacity(SumLengths(wgroups))
    /\ pc' = "exit"
    /\ outcome' = "CapacityExceeded"
    /\ UNCHANGED <<config, frontVars, loopVars, primaryVars, fillVars, grid,
                   rng_used>>

\* The capacity check passes: last_attempts = 0, and the loop is entered
\* with the locals of a new frame.
EnterGreedy ==
    /\ ReachesGreedy
    /\ ~OverCapacity(SumLengths(wgroups))
    /\ last_attempts' = 0
    /\ attempt' = 0
    /\ a_list' = <<>>
    /\ pos' = 0
    /\ failed_name' = Unbound
    /\ pc' = "attempt_loop"
    /\ UNCHANGED <<config, frontVars, loopVars, empty_rows, fillVars, grid,
                   outcome, rng_used>>

\* Mutant of StartAttempt: the loop runs one attempt past max_tries
\* (range(1, max_tries + 2)).
StartAttempt_OneMore ==
    /\ pc = "attempt_loop"
    /\ attempt <= max_tries
    /\ attempt' = attempt + 1
    /\ \E sample \in Samples(wgroups) :
          a_list' = ApplyStrategy(sort_strategy, sample)
    /\ grid' = EmptyGrid
    /\ failed_name' = None
    /\ pos' = 1
    /\ rng_used' = TRUE
    /\ pc' = "placing"
    /\ UNCHANGED <<config, frontVars, loopVars, last_attempts, empty_rows,
                   fillVars, outcome>>

\* Mutant of StartAttempt: a retry goes on with the grid the failed attempt
\* left.
StartAttempt_ReusesGrid ==
    /\ pc = "attempt_loop"
    /\ attempt < max_tries
    /\ attempt' = attempt + 1
    /\ \E sample \in Samples(wgroups) :
          a_list' = ApplyStrategy(sort_strategy, sample)
    /\ grid' = IF attempt = 0 THEN EmptyGrid ELSE grid
    /\ failed_name' = None
    /\ pos' = 1
    /\ rng_used' = TRUE
    /\ pc' = "placing"
    /\ UNCHANGED <<config, frontVars, loopVars, last_attempts, empty_rows,
                   fillVars, outcome>>

\* The head of an attempt: the shuffle, the sort, the fresh grid.
StartAttempt ==
    /\ pc = "attempt_loop"
    /\ attempt < max_tries
    /\ attempt' = attempt + 1
    /\ \E sample \in Samples(wgroups) :
          a_list' = ApplyStrategy(sort_strategy, sample)
    /\ grid' = EmptyGrid
    /\ failed_name' = None
    /\ pos' = 1
    /\ rng_used' = TRUE
    /\ pc' = "placing"
    /\ UNCHANGED <<config, frontVars, loopVars, last_attempts, empty_rows,
                   fillVars, outcome>>

\* The next request of the attempt finds a free run and takes it.
PlaceWG ==
    /\ pc = "placing"
    /\ pos <= Len(a_list)
    /\ \E cand \in Selectable(grid, a_list[pos].length, 0) \ {NoCandidate} :
          grid' = Occupy(grid, cand[1], cand[2], a_list[pos].length,
                         a_list[pos].name)
    /\ pos' = pos + 1
    /\ UNCHANGED <<config, frontVars, loopVars, attempt, a_list, failed_name,
                   last_attempts, empty_rows, fillVars, pc, outcome,
                   rng_used>>

\* Mutant of FailWG: the request that finds no free run is passed over,
\* failed_name is not set and the attempt goes on.
FailWG_PassedOver ==
    /\ pc = "placing"
    /\ pos <= Len(a_list)
    /\ NoCandidate \in Selectable(grid, a_list[pos].length, 0)
    /\ pos' = pos + 1
    /\ UNCHANGED <<config, frontVars, loopVars, attempt, a_list, failed_name,
                   last_attempts, empty_rows, fillVars, grid, pc, outcome,
                   rng_used>>

\* Mutant of FailWG: the failing name is taken from the requests not yet
\* placed in no fixed order, as from a set.
FailWG_AnyUnplacedName ==
    /\ pc = "placing"
    /\ pos <= Len(a_list)
    /\ NoCandidate \in Selectable(grid, a_list[pos].length, 0)
    /\ \E i \in pos .. Len(a_list) : failed_name' = a_list[i].name
    /\ pc' = "attempt_loop"
    /\ UNCHANGED <<config, frontVars, loopVars, attempt, a_list, pos,
                   last_attempts, empty_rows, fillVars, grid, outcome,
                   rng_used>>

\* Mutant of FailWG: a request longer than the grid is cut to the grid's
\* blocks and placed in a room whose column is empty, when there is one.
FailWG_TruncatesOversize ==
    /\ pc = "placing"
    /\ pos <= Len(a_list)
    /\ NoCandidate \in Selectable(grid, a_list[pos].length, 0)
    /\ IF /\ a_list[pos].length > NUM_BLOCKS
          /\ \E r \in Rooms : RunFree(grid, 0, r, NUM_BLOCKS)
       THEN /\ \E r \in {r \in Rooms : RunFree(grid, 0, r, NUM_BLOCKS)} :
                  grid' = Occupy(grid, 0, r, NUM_BLOCKS, a_list[pos].name)
            /\ pos' = pos + 1
            /\ UNCHANGED <<failed_name, pc>>
       ELSE /\ failed_name' = a_list[pos].name
            /\ pc' = "attempt_loop"
            /\ UNCHANGED <<pos, grid>>
    /\ UNCHANGED <<config, frontVars, loopVars, attempt, a_list,
                   last_attempts, empty_rows, fillVars, outcome, rng_used>>

\* The next request finds no free run: failed_name is set, the attempt is
\* left (break), and the loop goes on (if failed_name: continue).
FailWG ==
    /\ pc = "placing"
    /\ pos <= Len(a_list)
    /\ NoCandidate \in Selectable(grid, a_list[pos].length, 0)
    /\ failed_name' = a_list[pos].name
    /\ pc' = "attempt_loop"
    /\ UNCHANGED <<config, frontVars, loopVars, attempt, a_list, pos,
                   last_attempts, empty_rows, fillVars, grid, outcome,
                   rng_used>>

\* Mutant of EmptyRowsFrom: a row counts as empty when any of its cells is.
RECURSIVE EmptyRowsFrom_AnyCell(_, _)
EmptyRowsFrom_AnyCell(g, idx) ==
    IF idx > NUM_BLOCKS - 1 THEN <<>>
    ELSE (IF \E r \in Rooms : g[idx][r] = None THEN <<idx>> ELSE <<>>)
         \o EmptyRowsFrom_AnyCell(g, idx + 1)

\* [idx for idx, row in enumerate(grid) if not any(row)]
RECURSIVE EmptyRowsFrom(_, _)
EmptyRowsFrom(g, idx) ==
    IF idx > NUM_BLOCKS - 1 THEN <<>>
    ELSE (IF \A r \in Rooms : g[idx][r] = None THEN <<idx>> ELSE <<>>)
         \o EmptyRowsFrom(g, idx + 1)

\* Every request of the attempt was placed: return grid, None, empty_rows.
ReturnWG ==
    /\ pc = "placing"
    /\ pos > Len(a_list)
    /\ failed_name = None
    /\ empty_rows' = EmptyRowsFrom(grid, 0)
    /\ last_attempts' = attempt
    /\ pc' = "wg_returned"
    /\ UNCHANGED <<config, frontVars, loopVars, attempt, a_list, pos,
                   failed_name, fillVars, grid, outcome, rng_used>>

\* Mutant of PlacementFailedExit: the grid of the last attempt is handed
\* back with the failed name, as the docstring describes, with no exit.
PlacementFailed_ReturnsPartial ==
    /\ pc = "attempt_loop"
    /\ attempt >= max_tries
    /\ failed_name # Unbound
    /\ pc' = "wg_returned"
    /\ UNCHANGED <<config, frontVars, loopVars, primaryVars, fillVars, grid,
                   outcome, rng_used>>

\* The loop is over and the last attempt failed: sys.exit naming failed_name.
PlacementFailedExit ==
    /\ pc = "attempt_loop"
    /\ attempt >= max_tries
    /\ failed_name # Unbound
    /\ pc' = "exit"
    /\ outcome' = "PlacementFailed"
    /\ UNCHANGED <<config, frontVars, loopVars, primaryVars, fillVars, grid,
                   rng_used>>

\* The loop body never ran (max_tries < 1): the exit message reads a local
\* that was never assigned.
UnboundFailedName ==
    /\ pc = "attempt_loop"
    /\ attempt >= max_tries
    /\ failed_name = Unbound
    /\ pc' = "exit"
    /\ outcome' = "UnboundLocalError"
    /\ UNCHANGED <<config, frontVars, loopVars, primaryVars, fillVars, grid,
                   rng_used>>

----------------------------------------------------------------------------
\* fill_bofs

\* Mutant of CopyGrid: new_grid = grid, the caller's own lists.
CopyGrid_Alias(g) == [cells |-> g, shared |-> TRUE]

\* new_grid = [row[:] for row in grid]: new rows, no list shared with grid.
CopyGrid(g) == [cells |-> g, shared |-> FALSE]

\* The dispatcher calls fill_bofs on the schedule it read or on grid_wg.
CallsFill ==
    \/ pc = "schedule_read"
    \/ pc = "wg_returned" /\ has_b

\* Mutant of StartFill: the pass starts from an empty grid instead of a
\* copy of the caller's grid.
StartFill_FromEmptyGrid ==
    /\ CallsFill
    /\ new_grid' = EmptyGrid
    /\ shared' = FALSE
    /\ leftovers' = <<>>
    /\ \E sample \in Samples(bofs) :
          bof_list' = ApplyStrategy(sort_strategy, sample)
    /\ bpos' = 1
    /\ rng_used' = TRUE
    /\ pc' = "filling"
    /\ UNCHANGED <<config, frontVars, loopVars, primaryVars, grid, outcome>>

\* The head of fill_bofs: the copy, the shuffle, the sort.
StartFill ==
    /\ CallsFill
    /\ new_grid' = CopyGrid(grid).cells
    /\ shared' = CopyGrid(grid).shared
    /\ leftovers' = <<>>
    /\ \E sample \in Samples(bofs) :
          bof_list' = ApplyStrategy(sort_strategy, sample)
    /\ bpos' = 1
    /\ rng_used' = TRUE
    /\ pc' = "filling"
    /\ UNCHANGED <<config, frontVars, loopVars, primaryVars, grid, outcome>>

\* The next BOF finds a free run and takes it.  A write to new_grid is a
\* write to the caller's grid when the two are one object.
PlaceBOF ==
    /\ pc = "filling"
    /\ bpos <= Len(bof_list)
    /\ \E cand \in Selectable(new_grid, bof_list[bpos].length, 0)
                     \ {NoCandidate} :
          new_grid' = Occupy(new_grid, cand[1], cand[2],
                             bof_list[bpos].length, bof_list[bpos].name)
    /\ grid' = IF shared THEN new_grid' ELSE grid
    /\ bpos' = bpos + 1
    /\ UNCHANGED <<config, frontVars, loopVars, primaryVars, shared, bof_list,
                   leftovers, pc, outcome, rng_used>>

\* Mutant of LeftoverBOF: the name is appended to leftovers twice.
LeftoverBOF_Twice ==
    /\ pc = "filling"
    /\ bpos <= Len(bof_list)
    /\ NoCandidate \in Selectable(new_grid, bof_list[bpos].length, 0)
    /\ leftovers' = leftovers \o <<bof_list[bpos].name, bof_list[bpos].name>>
    /\ bpos' = bpos + 1
    /\ UNCHANGED <<config, frontVars, loopVars, primaryVars, new_grid, shared,
                   bof_list, grid, pc, outcome, rng_used>>

\* Mutant of LeftoverBOF: the first BOF that finds no free run ends the
\* pass (a break, as in greedy_place_wgroups).
LeftoverBOF_Breaks ==
    /\ pc = "filling"
    /\ bpos <= Len(bof_list)
    /\ NoCandidate \in Selectable(new_grid, bof_list[bpos].length, 0)
    /\ leftovers' = Append(leftovers, bof_list[bpos].name)
    /\ pc' = "fill_returned"
    /\ UNCHANGED <<config, frontVars, loopVars, primaryVars, new_grid, shared,
                   bof_list, bpos, grid, outcome, rng_used>>

\* Mutant of LeftoverBOF: the name is put at the front of leftovers.
LeftoverBOF_Prepends ==
    /\ pc = "filling"
    /\ bpos <= Len(bof_list)
    /\ NoCandidate \in Selectable(new_grid, bof_list[bpos].length, 0)
    /\ leftovers' = <<bof_list[bpos].name>> \o leftovers
    /\ bpos' = bpos + 1
    /\ UNCHANGED <<config, frontVars, loopVars, primaryVars, new_grid, shared,
                   bof_list, grid, pc, outcome, rng_used>>

\* Mutant of LeftoverBOF: the BOF that finds no free run is passed over
\* without a record.
LeftoverBOF_Unrecorded ==
    /\ pc = "filling"
    /\ bpos <= Len(bof_list)
    /\ NoCandidate \in Selectable(new_grid, bof_list[bpos].length, 0)
    /\ bpos' = bpos + 1
    /\ UNCHANGED <<config, frontVars, loopVars, primaryVars, new_grid, shared,
                   bof_list, leftovers, grid, pc, outcome, rng_used>>

\* The next BOF finds no free run: its name is appended to leftovers and
\* the loop goes on.
LeftoverBOF ==
    /\ pc = "filling"
    /\ bpos <= Len(bof_list)
    /\ NoCandidate \in Selectable(new_grid, bof_list[bpos].length, 0)
    /\ leftovers' = Append(leftovers, bof_list[bpos].name)
    /\ bpos' = bpos + 1
    /\ UNCHANGED <<config, frontVars, loopVars, primaryVars, new_grid, shared,
                   bof_list, grid, pc, outcome, rng_used>>

\* return new_grid, leftovers
ReturnFill ==
    /\ pc = "filling"
    /\ bpos > Len(bof_list)
    /\ pc' = "fill_returned"
    /\ UNCHANGED <<config, frontVars, loopVars, primaryVars, fillVars, grid,
                   outcome, rng_used>>

----------------------------------------------------------------------------
\* The dispatcher, after placement

\* The end of one pass of the permutations loop: the next pass with perm
\* one higher, or sys.exit(0) after the last.
LoopOn ==
    IF has_w /\ perm < permutations
    THEN perm' = perm + 1 /\ pc' = "next_perm" /\ outcome' = outcome
    ELSE perm' = perm /\ pc' = "exit" /\ outcome' = "Written"

\* write_schedule(grid, out_path) in the working-groups-only mode.
WriteWGSchedule ==
    /\ pc = "wg_returned"
    /\ ~has_b
    /\ files' = [files EXCEPT ![OutPath(perm)] = grid]
    /\ LoopOn
    /\ UNCHANGED <<config, frontVars, primaryVars, fillVars, grid, rng_used>>

\* Mutant of LeftoverExit: the grid of the incomplete fill is written
\* before the exit.
LeftoverExit_WritesFirst ==
    /\ pc = "fill_returned"
    /\ leftovers # <<>>
    /\ files' = [files EXCEPT ![OutPath(perm)] = new_grid]
    /\ pc' = "exit"
    /\ outcome' = "FillLeftover"
    /\ UNCHANGED <<config, frontVars, perm, primaryVars, fillVars, grid,
                   rng_used>>

\* if leftovers: sys.exit(...)
LeftoverExit ==
    /\ pc = "fill_returned"
    /\ leftovers # <<>>
    /\ pc' = "exit"
    /\ outcome' = "FillLeftover"
    /\ UNCHANGED <<config, frontVars, loopVars, primaryVars, fillVars, grid,
                   rng_used>>

\* write_schedule(new_grid, path) after a complete fill: to sched_path in
\* the BOF-only mode, to out_path in the two-phase mode.
WriteFilledSchedule ==
    /\ pc = "fill_returned"
    /\ leftovers = <<>>
    /\ files' = [files EXCEPT ![IF has_w THEN OutPath(perm) ELSE 0] = new_grid]
    /\ LoopOn
    /\ UNCHANGED <<config, frontVars, primaryVars, fillVars, grid, rng_used>>

Next ==
    \/ OverSubscribed
    \/ ReadSchedule
    \/ CapacityExit
    \/ EnterGreedy
    \/ StartAttempt
    \/ PlaceWG
    \/ FailWG
    \/ ReturnWG
    \/ PlacementFailedExit
    \/ UnboundFailedName
    \/ StartFill
    \/ PlaceBOF
    \/ LeftoverBOF
    \/ ReturnFill
    \/ WriteWGSchedule
    \/ LeftoverExit
    \/ WriteFilledSchedule

Spec == Init /\ [][Next]_vars

\* The run is one thread that executes its next statement as long as there
\* is one.
FairSpec == Spec /\ WF_vars(Next)

\* The dispatcher with the permutations loop taken more than once.
LoopSpec == LoopInit /\ [][Next]_vars

----------------------------------------------------------------------------
\* The dispatcher before placement: load_config, read_wgroups, read_bofs

\* A text is the sequence of its characters.
Whitespace == {" ", "\n"}

RECURSIVE LStrip(_)
LStrip(text) ==
    IF text # <<>> /\ Head(text) \in Whitespace THEN LStrip(Tail(text))
    ELSE text

RECURSIVE RStrip(_)
RStrip(text) ==
    IF text # <<>> /\ text[Len(text)] \in Whitespace
    THEN RStrip(SubSeq(text, 1, Len(text) - 1))
    ELSE text

\* str.strip()
Strip(text) == RStrip(LStrip(text))

\* text.split('\n', 1)[0]
RECURSIVE FirstLine(_)
FirstLine(text) ==
    IF text = <<>> \/ Head(text) = "\n" THEN <<>>
    ELSE <<Head(text)>> \o FirstLine(Tail(text))

DigitOf ==
    [c \in {"0", "1", "2", "3", "4", "5", "6", "7", "8", "9"} |->
        CASE c = "0" -> 0 [] c = "1" -> 1 [] c = "2" -> 2 [] c = "3" -> 3
          [] c = "4" -> 4 [] c = "5" -> 5 [] c = "6" -> 6 [] c = "7" -> 7
          [] c = "8" -> 8 [] OTHER -> 9]

RECURSIVE DigitsValue(_, _)
DigitsValue(digits, acc) ==
    IF digits = <<>> THEN acc
    ELSE DigitsValue(Tail(digits), 10 * acc + DigitOf[Head(digits)])

\* The digits of a text that int accepts: what is left of the stripped text
\* after an optional sign.
DigitsOf(text) ==
    LET t == Strip(text)
    IN  IF t # <<>> /\ Head(t) \in {"+", "-"} THEN Tail(t) ELSE t

\* int(text) raises ValueError: no digit, or a character that is none.
ValueError(text) ==
    \/ DigitsOf(text) = <<>>
    \/ \E i \in 1 .. Len(DigitsOf(text)) :
          DigitsOf(text)[i] \notin DOMAIN DigitOf

\* int(text), for a text that int accepts.
IntOf(text) ==
    IF Head(Strip(text)) = "-" THEN 0 - DigitsValue(DigitsOf(text), 0)
    ELSE DigitsValue(DigitsOf(text), 0)

\* The module's grid size before the dispatcher assigns the configured one.
DEFAULT_NUM_BLOCKS == 5
DEFAULT_NUM_ROOMS == 8

\* The configurations that load_config parses: every key present, every
\* value an integer, the columns 0 and 1; random_seed is None (null) or the
\* one-tuple of its integer.
Configs ==
    [num_sessions : 1 .. MaxSessions,
     num_rooms : {MaxRooms},
     max_tries : {0, 1},
     sort_strategy : {"largest_first", "random"},
     random_seed : {None, <<-1>>},
     name_column : {0},
     length_column : {1},
     wg_max_length : 0 .. MaxSessions + 1,
     bof_max_length : 0 .. MaxSessions + 1]

\* The validation of load_config: none of its exits is taken.
ConfigAccepted(c) ==
    /\ c.sort_strategy \in Strategies
    /\ ~(c.max_tries < 1)
    /\ ~(c.random_seed # None /\ c.random_seed[1] < 0)
    /\ ~(c.wg_max_length > c.num_sessions)
    /\ ~(c.bof_max_length > c.num_sessions)

\* The cells of a request file: names (blank, padded, of two lines) and
\* lengths (in range, padded, negative, not a number).
NameCells(class) ==
    {<<"A">>, <<" ">>}
    \cup (IF class = "BOF" THEN {<<" ", "C", "\n", "d">>} ELSE {<<" ", "B">>})

LengthCells == {<<"2">>, <<" ", "3", " ">>, <<"-", "1">>, <<"x">>}

\* The data rows: a row too short for the columns, or a name and a length.
DataRows(class) ==
    {<<>>} \cup {<<n, l>> : n \in NameCells(class), l \in LengthCells}

\* The request files: no line at all, a header too short for the columns,
\* or a header of two columns and up to MaxRows data rows.
RequestFiles(class) ==
    {<<>>, << << <<"h">> >> >>}
    \cup UNION {{<< << <<"h">>, <<"h">> >> >> \o rows :
                    rows \in [1 .. n -> DataRows(class)]} : n \in 0 .. MaxRows}

\* The run as the dispatcher starts: arguments parsed, nothing loaded.
ReaderInit ==
    /\ NUM_BLOCKS = DEFAULT_NUM_BLOCKS
    /\ NUM_ROOMS = DEFAULT_NUM_ROOMS
    /\ has_w \in BOOLEAN
    /\ has_b \in BOOLEAN
    /\ has_w \/ has_b
    /\ wgroups = Unbound
    /\ bofs = Unbound
    /\ max_tries = Unbound
    /\ sort_strategy = Unbound
    /\ pc = "load_config"
    /\ outcome = "running"
    /\ attempt = 0
    /\ a_list = <<>>
    /\ pos = 0
    /\ grid = NoGrid
    /\ failed_name = Unbound
    /\ last_attempts = 0
    /\ empty_rows = <<>>
    /\ new_grid = NoGrid
    /\ shared = FALSE
    /\ bof_list = <<>>
    /\ bpos = 0
    /\ leftovers = <<>>
    /\ rng_used = FALSE
    /\ permutations = 1
    /\ perm = 1
    /\ files = [path \in Paths |-> NoFile]
    /\ cfg \in Configs
    /\ csv = Gone
    /\ row_num = 0
    /\ wgs = Gone

placeVars ==
    <<primaryVars, fillVars, loopVars, grid, rng_used, permutations, has_w,
      has_b>>

\* load_config takes one of its exits.
LoadConfigExit ==
    /\ pc = "load_config"
    /\ ~ConfigAccepted(cfg)
    /\ pc' = "exit"
    /\ outcome' = "ConfigError"
    /\ UNCHANGED <<placeVars, frontVars, NUM_BLOCKS, NUM_ROOMS, wgroups, bofs,
                   max_tries, sort_strategy>>

\* The default of --max-tries.
DEFAULT_MAX_TRIES == 5000

\* The values of args.max_tries: the option absent (its default), or given
\* as zero or as a positive number; argparse's type=int takes any integer.
MaxTriesArgs == {DEFAULT_MAX_TRIES, 0, 2}

\* load_config returns cfg, and the dispatcher takes the grid size and the
\* algorithm parameters from it; --max-tries, when it differs from its
\* default, takes the place of the configured max_tries.
LoadConfig ==
    /\ pc = "load_config"
    /\ ConfigAccepted(cfg)
    /\ NUM_BLOCKS' = cfg.num_sessions
    /\ NUM_ROOMS' = cfg.num_rooms
    /\ \E given \in MaxTriesArgs :
          max_tries' = IF given # DEFAULT_MAX_TRIES THEN given
                       ELSE cfg.max_tries
    /\ sort_strategy' = cfg.sort_strategy
    /\ pc' = "load_wgroups"
    /\ UNCHANGED <<placeVars, frontVars, wgroups, bofs, outcome>>

\* The class whose file the dispatcher is about to read or is reading.
ReadClass == IF pc \in {"load_wgroups", "read_wgroups"} THEN "WG" ELSE "BOF"

\* The max_length argument of the reader.
MaxLength == IF ReadClass = "WG" THEN cfg.wg_max_length ELSE cfg.bof_max_length

\* max_col = max(name_col, length_col)
MaxCol == IF cfg.name_column > cfg.length_column THEN cfg.name_column
          ELSE cfg.length_column

\* The dispatcher is at the load of the class and its option is given.
AtLoad ==
    \/ pc = "load_wgroups" /\ has_w
    \/ pc = "load_bofs" /\ has_b

\* wgroups = [] / bofs = [] with no file to read.
NoRequestFile ==
    /\ \/ pc = "load_wgroups" /\ ~has_w /\ wgroups' = <<>> /\ bofs' = bofs
          /\ pc' = "load_bofs"
       \/ pc = "load_bofs" /\ ~has_b /\ bofs' = <<>> /\ wgroups' = wgroups
          /\ pc' = "main"
    /\ UNCHANGED <<placeVars, frontVars, NUM_BLOCKS, NUM_ROOMS, max_tries,
                   sort_strategy, outcome>>

\* header is None, or len(header) <= max_col.
BadHeader(file) ==
    IF file = <<>> THEN TRUE ELSE Len(file[1]) <= MaxCol

\* The file has no header line, or fewer header columns than the
\* configured columns need: sys.exit.
HeaderExit ==
    /\ AtLoad
    /\ \E file \in RequestFiles(ReadClass) :
          /\ BadHeader(file)
          /\ csv' = file
    /\ pc' = "exit"
    /\ outcome' = "HeaderError"
    /\ UNCHANGED <<placeVars, cfg, row_num, wgs, NUM_BLOCKS, NUM_ROOMS,
                   wgroups, bofs, max_tries, sort_strategy>>

\* The reader opens its file and takes the header: the list is empty, the
\* rows are numbered from 2.
OpenReader ==
    /\ AtLoad
    /\ \E file \in RequestFiles(ReadClass) :
          /\ ~BadHeader(file)
          /\ csv' = file
    /\ wgs' = <<>>
    /\ row_num' = 2
    /\ pc' = (IF ReadClass = "WG" THEN "read_wgroups" ELSE "read_bofs")
    /\ UNCHANGED <<placeVars, cfg, NUM_BLOCKS, NUM_ROOMS, wgroups, bofs,
                   max_tries, sort_strategy, outcome>>

\* A reader is in its loop over the rows, and a row is left.
AtRow ==
    /\ pc \in {"read_wgroups", "read_bofs"}
    /\ row_num <= Len(csv)

\* The name of a row that has the columns: the stripped cell for a working
\* group, the stripped first line of the stripped cell for a BOF.
NameOf(class, row) ==
    LET raw_cell == Strip(row[cfg.name_column + 1])
    IN  IF class = "WG" \/ raw_cell = <<>> THEN raw_cell
        ELSE Strip(FirstLine(raw_cell))

\* The row is passed over: too few columns, or a blank name.
RowSkipped(class, row) ==
    IF Len(row) <= MaxCol THEN TRUE ELSE NameOf(class, row) = <<>>

\* Mutant of Capped: a length above max_length is kept.
Capped_NoCap(length, max_length) ==
    IF length < 1 THEN 1 ELSE length

\* if length < 1: length = 1, then if length > max_length: length = max_length
Capped(length, max_length) ==
    LET raised == IF length < 1 THEN 1 ELSE length
    IN  IF raised > max_length THEN max_length ELSE raised

\* continue: the next row.
SkipRow ==
    /\ AtRow
    /\ RowSkipped(ReadClass, csv[row_num])
    /\ row_num' = row_num + 1
    /\ UNCHANGED <<placeVars, cfg, csv, wgs, NUM_BLOCKS, NUM_ROOMS, wgroups,
                   bofs, max_tries, sort_strategy, pc, outcome>>

\* The length cell is not an integer: sys.exit.
BadLengthExit ==
    /\ AtRow
    /\ ~RowSkipped(ReadClass, csv[row_num])
    /\ ValueError(csv[row_num][cfg.length_column + 1])
    /\ pc' = "exit"
    /\ outcome' = "ParseError"
    /\ UNCHANGED <<placeVars, frontVars, NUM_BLOCKS, NUM_ROOMS, wgroups, bofs,
                   max_tries, sort_strategy>>

\* wgs.append((name, length)) with the length raised to 1 and capped.
AppendRequest ==
    /\ AtRow
    /\ ~RowSkipped(ReadClass, csv[row_num])
    /\ ~ValueError(csv[row_num][cfg.length_column + 1])
    /\ wgs' = Append(wgs,
                 [name |-> NameOf(ReadClass, csv[row_num]),
                  length |-> Capped(IntOf(csv[row_num][cfg.length_column + 1]),
                                    MaxLength)])
    /\ row_num' = row_num + 1
    /\ UNCHANGED <<placeVars, cfg, csv, NUM_BLOCKS, NUM_ROOMS, wgroups, bofs,
                   max_tries, sort_strategy, pc, outcome>>

\* return wgs: the file is closed and the dispatcher has its list.
ReaderReturn ==
    /\ pc \in {"read_wgroups", "read_bofs"}
    /\ row_num > Len(csv)
    /\ IF pc = "read_wgroups"
       THEN wgroups' = wgs /\ bofs' = bofs /\ pc' = "load_bofs"
       ELSE bofs' = wgs /\ wgroups' = wgroups /\ pc' = "main"
    /\ csv' = Gone
    /\ wgs' = Gone
    /\ row_num' = 0
    /\ UNCHANGED <<placeVars, cfg, NUM_BLOCKS, NUM_ROOMS, max_tries,
                   sort_strategy, outcome>>

ReaderNext ==
    \/ LoadConfigExit
    \/ LoadConfig
    \/ NoRequestFile
    \/ HeaderExit
    \/ OpenReader
    \/ SkipRow
    \/ BadLengthExit
    \/ AppendRequest
    \/ ReaderReturn

\* The dispatcher from its start to the pre-flight check.
ReaderSpec == ReaderInit /\ [][ReaderNext]_vars

----------------------------------------------------------------------------
\* Properties

\* The set of the elements of a sequence.
Range(seq) == {seq[i] : i \in 1 .. Len(seq)}

\* cells is a run of length cells of one room: blocks b, b+1, ..., b+length-1.
IsRun(cells, length) ==
    \E b \in Blocks, r \in Rooms :
        cells = {<<b + offset, r>> : offset \in 0 .. length - 1}

\* The requests of the current attempt that greedy_place_wgroups has placed.
PlacedWGs == {a_list[i] : i \in 1 .. (IF pos > 0 THEN pos - 1 ELSE 0)}

\* The requests that fill_bofs has processed and not reported in leftovers.
PlacedBOFs ==
    {req \in {bof_list[i] : i \in 1 .. (IF bpos > 0 THEN bpos - 1 ELSE 0)} :
        req.name \notin Range(leftovers)}

\* C1 (no double-booking): a placement step of greedy_place_wgroups or of
\* fill_bofs changes only cells that were empty immediately before the
\* step, so a cell that holds a name is never overwritten.
C1_NoDoubleBooking ==
    [][/\ (pc = "placing" /\ pos' = pos + 1) =>
             \A b \in Blocks, r \in Rooms :
                 grid'[b][r] # grid[b][r] => grid[b][r] = None
       /\ (pc = "filling" /\ bpos' = bpos + 1) =>
             \A b \in Blocks, r \in Rooms :
                 new_grid'[b][r] # new_grid[b][r] => new_grid[b][r] = None
      ]_vars

\* A BOF has been written into a grid that holds an earlier session and has
\* no empty cell left.
C1_Witness ==
    /\ pc = "filling"
    /\ PlacedBOFs # {}
    /\ \E b \in Blocks, r \in Rooms : new_grid[b][r] = Existing
    /\ Occupied(new_grid) = CAPACITY

\* C2 (contiguity in one room): the cells that hold the name of a placed
\* request of length L are exactly L cells of one room, at blocks
\* b, b+1, ..., b+L-1 for some b; in the primary grid and in the fill grid.
C2_Contiguity ==
    /\ \A req \in PlacedWGs : IsRun(CellsOf(grid, req.name), req.length)
    /\ \A req \in PlacedBOFs : IsRun(CellsOf(new_grid, req.name), req.length)

\* A working group of length 3 and a BOF of length 2 are both placed.
C2_Witness ==
    /\ pc = "fill_returned"
    /\ \E req \in PlacedWGs : req.length = 3
    /\ \E req \in PlacedBOFs : req.length = 2

\* C3 (conservation, primary): when greedy_place_wgroups returns a grid,
\* the number of its non-empty cells is the sum of the lengths of the
\* working groups passed in.
C3_ConservationPrimary ==
    pc = "wg_returned" => Occupied(grid) = SumLengths(wgroups)

\* greedy_place_wgroups returns after a failed attempt, three groups placed.
C3_Witness ==
    /\ pc = "wg_returned"
    /\ attempt = 2
    /\ Len(wgroups) = 3

\* C4 (conservation, fill): the number of non-empty cells of the grid that
\* fill_bofs returns is that of its input grid plus the lengths of the fill
\* requests that are not reported in leftovers.
C4_ConservationFill ==
    pc = "fill_returned" =>
        Occupied(new_grid) =
            Occupied(grid)
            + SumLengths(SelectSeq(bofs,
                  LAMBDA req : req.name \notin Range(leftovers)))

\* fill_bofs returns with one request placed and one left over, on a grid
\* that held sessions before.
C4_Witness ==
    /\ pc = "fill_returned"
    /\ Occupied(grid) > 0
    /\ Len(leftovers) = 1
    /\ Len(bofs) = 2

\* The dispatcher has called greedy_place_wgroups.
GreedyCalled == has_w /\ pc # "main" /\ outcome # "OverSubscribed"

\* C5 (capacity gate): greedy_place_wgroups ends in the capacity-exceeded
\* exit if and only if the requested lengths sum to more than
\* blocks x rooms, and then no attempt has started: no random draw was
\* made, no grid was allocated, the attempt counter was never set.
C5_CapacityGate ==
    /\ GreedyCalled =>
          (outcome = "CapacityExceeded" <=> SumLengths(wgroups) > CAPACITY)
    /\ outcome = "CapacityExceeded" =>
          ~rng_used /\ grid = NoGrid /\ attempt = 0 /\ a_list = <<>>

\* The capacity-exceeded exit is taken.
C5_Witness ==
    /\ outcome = "CapacityExceeded"
    /\ SumLengths(wgroups) = CAPACITY + 1

\* Some candidate run of the given length is free in g.
SomeRunFree(g, length) ==
    \E b \in Blocks, r \in Rooms :
        /\ b + length <= NUM_BLOCKS
        /\ \A offset \in 0 .. length - 1 : g[b + offset][r] = None

C7_FillNeverAborts ==
    /\ [][pc = "filling" =>
            /\ pc' \in {"filling", "fill_returned"}
            /\ outcome' = "running"
            /\ leftovers' # leftovers =>
                  /\ leftovers' = Append(leftovers, bof_list[bpos].name)
                  /\ new_grid' = new_grid
                  /\ bpos' = bpos + 1
                  /\ pc' = "filling"
            /\ pc' = "fill_returned" =>
                  bpos = Len(bofs) + 1 /\ Len(bof_list) = Len(bofs)
         ]_vars
    /\ (pc = "filling") ~> (pc = "fill_returned")

\* fill_bofs has returned, and a request processed after a leftover one was
\* placed.
C7_Witness ==
    /\ pc = "fill_returned"
    /\ \E i, j \in 1 .. Len(bof_list) :
          /\ i < j
          /\ bof_list[i].name \in Range(leftovers)
          /\ CellsOf(new_grid, bof_list[j].name) # {}

\* C8 (fill works on a copy): no step of fill_bofs changes a cell of the
\* caller's grid; and when that grid has no empty cell, the returned grid
\* equals it cell for cell.
C8_FillWorksOnCopy ==
    /\ [][(CallsFill \/ pc = "filling") => grid' = grid]_vars
    /\ [](pc = "fill_returned" /\ Occupied(grid) = CAPACITY => new_grid = grid)

\* fill_bofs has returned a grid that differs from the caller's grid, which
\* held sessions.
C8_Witness ==
    /\ pc = "fill_returned"
    /\ new_grid # grid
    /\ Occupied(grid) > 0

\* The names of the requests of reqs that hold no cell of new_grid, in the
\* order of reqs.
UnplacedNames(reqs) ==
    LET unplaced == SelectSeq(reqs, LAMBDA req : CellsOf(new_grid, req.name) = {})
    IN  [i \in 1 .. Len(unplaced) |-> unplaced[i].name]

\* C9 as claimed (leftover in submission order): leftovers lists the
\* unplaced fill requests in the order they have in the input list bofs.
C9_LeftoverInSubmissionOrder ==
    pc = "fill_returned" => leftovers = UnplacedNames(bofs)

\* C9 as amended (leftover in processing order): leftovers lists the
\* unplaced fill requests in the order in which fill_bofs processed them,
\* the order of the shuffled and strategy-sorted list.
C9_LeftoverInProcessingOrder ==
    pc = "fill_returned" => leftovers = UnplacedNames(bof_list)

\* Two requests are left over, in the reverse of their submission order.
C9_Witness ==
    /\ pc = "fill_returned"
    /\ Len(leftovers) = 2
    /\ Len(bofs) = 2
    /\ leftovers = <<bofs[2].name, bofs[1].name>>

\* The number of empty cells of g.
FreeCells(g) == CAPACITY - Occupied(g)

\* Some placement puts every request of reqs on a free run of g of its own.
RECURSIVE FullPlacementExists(_, _)
FullPlacementExists(g, reqs) ==
    IF reqs = <<>> THEN TRUE
    ELSE \E b \in Blocks, r \in Rooms :
            /\ b + Head(reqs).length <= NUM_BLOCKS
            /\ \A offset \in 0 .. Head(reqs).length - 1 : g[b + offset][r] = None
            /\ FullPlacementExists(
                   [bb \in Blocks |-> [rr \in Rooms |->
                       IF rr = r /\ bb \in b .. b + Head(reqs).length - 1
                       THEN Head(reqs).name ELSE g[bb][rr]]],
                   Tail(reqs))

\* C10 as claimed (leftover monotonicity): when the fill list is no longer
\* in total than the free cells of the input grid and some complete
\* placement of it exists, leftovers is empty.
C10_LeftoverMonotonicity ==
    (/\ pc = "fill_returned"
     /\ SumLengths(bofs) <= FreeCells(grid)
     /\ FullPlacementExists(grid, bofs)) =>
        leftovers = <<>>

\* C10 as amended: when every fill request has length 1 and there are no
\* more of them than free cells in the input grid, leftovers is empty.
C10_UnitFillComplete ==
    (/\ pc = "fill_returned"
     /\ \A i \in 1 .. Len(bofs) : bofs[i].length = 1
     /\ Len(bofs) <= FreeCells(grid)) =>
        leftovers = <<>>

\* Three unit requests have filled the last three free cells of a grid that
\* held sessions.
C10_Witness ==
    /\ pc = "fill_returned"
    /\ Len(bofs) = 3
    /\ \A i \in 1 .. Len(bofs) : bofs[i].length = 1
    /\ FreeCells(grid) = 3
    /\ Occupied(grid) > 0
    /\ leftovers = <<>>
    /\ Occupied(new_grid) = CAPACITY

----------------------------------------------------------------------------
\* The placement calls as functions of the state and of the draw

\* The sample that random.sample returns for the index permutation p.
SampleBy(seq, p) == [i \in 1 .. Len(seq) |-> seq[p[i]]]

\* The shuffles one request consumes: one room order for every start block of
\* range(0, NUM_BLOCKS - length + 1), drawn before the scan starts.
ShuffleDraws(length) == [1 .. LastStart(length) + 1 -> RoomOrders]

\* The list candidates: for every start block in increasing order, the
\* pairs (start, room) in the room order drawn for that start block.
RECURSIVE Candidates(_, _, _)
Candidates(orders, start, length) ==
    IF start > LastStart(length) THEN <<>>
    ELSE [i \in 1 .. NUM_ROOMS |-> <<start, orders[start + 1][i]>>]
         \o Candidates(orders, start + 1, length)

\* for (blk, rms) in candidates: the first candidate whose run is free.
RECURSIVE FirstFit(_, _, _)
FirstFit(g, candidates, length) ==
    IF candidates = <<>> THEN NoCandidate
    ELSE IF RunFree(g, Head(candidates)[1], Head(candidates)[2], length)
         THEN Head(candidates)
         ELSE FirstFit(g, Tail(candidates), length)

\* What the two placement calls compute and hand back.
RunState ==
    <<pc, outcome, attempt, a_list, pos, grid, failed_name, last_attempts,
      empty_rows, new_grid, shared, bof_list, bpos, leftovers>>

\* The step draws a sample: the head of an attempt, or the head of fill_bofs.
DrawsSample ==
    \/ pc = "attempt_loop" /\ attempt < max_tries
    \/ CallsFill

\* The step draws room shuffles: the placement of one request.
DrawsShuffles ==
    \/ pc = "placing" /\ pos <= Len(a_list)
    \/ pc = "filling" /\ bpos <= Len(bof_list)

\* RunState after a step that drew the index permutation p.
AfterSample(p) ==
    IF pc = "attempt_loop"
    THEN <<"placing", outcome, attempt + 1,
           ApplyStrategy(sort_strategy, SampleBy(wgroups, p)), 1, EmptyGrid,
           None, last_attempts, empty_rows, new_grid, shared, bof_list, bpos,
           leftovers>>
    ELSE <<"filling", outcome, attempt, a_list, pos, grid, failed_name,
           last_attempts, empty_rows, grid, FALSE,
           ApplyStrategy(sort_strategy, SampleBy(bofs, p)), 1, <<>> >>

\* RunState after a step that drew the room orders of one request.
AfterShuffles(orders) ==
    IF pc = "placing"
    THEN LET req == a_list[pos]
             cand == FirstFit(grid, Candidates(orders, 0, req.length),
                              req.length)
         IN  IF cand = NoCandidate
             THEN <<"attempt_loop", outcome, attempt, a_list, pos, grid,
                    req.name, last_attempts, empty_rows, new_grid, shared,
                    bof_list, bpos, leftovers>>
             ELSE <<pc, outcome, attempt, a_list, pos + 1,
                    Occupy(grid, cand[1], cand[2], req.length, req.name),
                    failed_name, last_attempts, empty_rows, new_grid, shared,
                    bof_list, bpos, leftovers>>
    ELSE LET req == bof_list[bpos]
             cand == FirstFit(new_grid, Candidates(orders, 0, req.length),
                              req.length)
         IN  IF cand = NoCandidate
             THEN <<pc, outcome, attempt, a_list, pos, grid, failed_name,
                    last_attempts, empty_rows, new_grid, shared, bof_list,
                    bpos + 1, Append(leftovers, req.name)>>
             ELSE <<pc, outcome, attempt, a_list, pos, grid, failed_name,
                    last_attempts, empty_rows,
                    Occupy(new_grid, cand[1], cand[2], req.length, req.name),
                    shared, bof_list, bpos + 1, leftovers>>

\* RunState after a step of the two calls that draws nothing: the return of
\* greedy_place_wgroups, its exit after the loop, the return of fill_bofs.
AfterNoDraw ==
    CASE pc = "placing" ->
           <<"wg_returned", outcome, attempt, a_list, pos, grid, failed_name,
             attempt, EmptyRowsFrom(grid, 0), new_grid, shared, bof_list,
             bpos, leftovers>>
      [] pc = "attempt_loop" ->
           <<"exit",
             IF failed_name = Unbound THEN "UnboundLocalError"
             ELSE "PlacementFailed",
             attempt, a_list, pos, grid, failed_name, last_attempts,
             empty_rows, new_grid, shared, bof_list, bpos, leftovers>>
      [] OTHER ->
           <<"fill_returned", outcome, attempt, a_list, pos, grid,
             failed_name, last_attempts, empty_rows, new_grid, shared,
             bof_list, bpos, leftovers>>

\* C11 (determinism under a fixed seed): every step of greedy_place_wgroups
\* and of fill_bofs leads to the one state that the state before it and the
\* random draw it consumes determine (a sample at the head of an attempt and
\* of the fill pass, the room shuffles of one request at a placement, no
\* draw elsewhere); so two runs from the same inputs that consume the same
\* draws go through the same attempts and end with the same grids, the same
\* leftovers and the same attempt counts.
C11_Determinism ==
    [][(pc \in {"attempt_loop", "placing", "filling"} \/ CallsFill) =>
          \/ /\ DrawsSample
             /\ \E p \in PermsOf(IF CallsFill THEN Len(bofs)
                                 ELSE Len(wgroups)) :
                   RunState' = AfterSample(p)
          \/ /\ DrawsShuffles
             /\ \E orders \in ShuffleDraws(IF pc = "placing"
                                           THEN a_list[pos].length
                                           ELSE bof_list[bpos].length) :
                   RunState' = AfterShuffles(orders)
          \/ /\ ~DrawsSample /\ ~DrawsShuffles
             /\ RunState' = AfterNoDraw
      ]_vars

\* Both calls have run: greedy_place_wgroups placed a working group, and the
\* fill pass placed a BOF and left one over.
C11_Witness ==
    /\ pc = "fill_returned"
    /\ has_w
    /\ Len(wgroups) = 1
    /\ last_attempts = 1
    /\ PlacedBOFs # {}
    /\ leftovers # <<>>

\* The demand is small: no more requests than rooms, none longer than the
\* grid has blocks.
SmallDemand(reqs) ==
    /\ Len(reqs) <= NUM_ROOMS
    /\ \A i \in 1 .. Len(reqs) : reqs[i].length <= NUM_BLOCKS

\* C12 (guaranteed success for small demand): when the working groups are
\* no more than the rooms and none is longer than the blocks, with
\* max_tries >= 1, greedy_place_wgroups never takes an exit of its own, no
\* request of its first attempt fails, no second attempt starts, and it
\* returns with last_attempts = 1; and fill_bofs on an empty grid with such
\* a list returns an empty leftovers.
C12_SmallDemandSucceeds ==
    /\ (has_w /\ SmallDemand(wgroups) /\ max_tries >= 1) =>
          /\ failed_name \in {Unbound, None}
          /\ attempt <= 1
          /\ outcome \notin {"CapacityExceeded", "PlacementFailed",
                             "UnboundLocalError"}
          /\ pc \in {"wg_returned", "filling", "fill_returned"} =>
                last_attempts = 1
          /\ (pc = "exit" /\ outcome # "OverSubscribed") => last_attempts = 1
    /\ (pc = "fill_returned" /\ SmallDemand(bofs) /\ grid = EmptyGrid) =>
          leftovers = <<>>

\* Two working groups of three blocks each have been placed in the first
\* attempt on the grid of three blocks and two rooms.
C12_Witness ==
    /\ pc = "wg_returned"
    /\ NUM_BLOCKS = 3 /\ NUM_ROOMS = 2
    /\ Len(wgroups) = 2
    /\ \A i \in 1 .. Len(wgroups) : wgroups[i].length = 3
    /\ max_tries = 2
    /\ last_attempts = 1

\* C13 (all sessions appear after both phases): when greedy_place_wgroups
\* has returned and fill_bofs on its grid returns an empty leftovers, the
\* returned grid holds the name of every working group in exactly its
\* length cells and the name of every BOF in exactly its length cells; and
\* every cell that held a name in the grid passed to fill_bofs holds the
\* same name in the grid it returns.
C13_AllSessionsAfterBothPhases ==
    /\ (pc = "fill_returned" /\ has_w /\ leftovers = <<>>) =>
          /\ \A i \in 1 .. Len(wgroups) :
                Cardinality(CellsOf(new_grid, wgroups[i].name))
                    = wgroups[i].length
          /\ \A i \in 1 .. Len(bofs) :
                Cardinality(CellsOf(new_grid, bofs[i].name)) = bofs[i].length
    /\ pc = "fill_returned" =>
          \A b \in Blocks, r \in Rooms :
              grid[b][r] # None => new_grid[b][r] = grid[b][r]

\* Both phases have placed everything: a working group and two BOFs fill
\* the grid.
C13_Witness ==
    /\ pc = "fill_returned"
    /\ has_w
    /\ Len(wgroups) = 1
    /\ Len(bofs) = 2
    /\ leftovers = <<>>
    /\ Occupied(new_grid) = CAPACITY
    /\ CAPACITY > 3

\* The endings of a run that report a placement as failed.
FailedOutcomes ==
    {"OverSubscribed", "CapacityExceeded", "PlacementFailed",
     "UnboundLocalError", "FillLeftover"}

\* Every request of reqs holds exactly its length cells of g.
AllPlaced(g, reqs) ==
    \A i \in 1 .. Len(reqs) :
        Cardinality(CellsOf(g, reqs[i].name)) = reqs[i].length

\* C14 (no schedule is persisted for a failed placement): a step changes a
\* schedule file only as write_schedule for the output of the current pass,
\* after greedy_place_wgroups (if requested) has returned a grid with every
\* working group placed and fill_bofs (if requested) has returned an empty
\* leftovers, and the grid written is that result; a step that ends the
\* run in a failure writes nothing; and after such an ending the output of
\* the failed pass does not exist, while in the BOF-only mode the schedule
\* file still holds the grid that was read from it.
C14_NoScheduleForFailedPlacement ==
    /\ [][(files' # files =>
              /\ files' = [files EXCEPT
                              ![IF has_w THEN OutPath(perm) ELSE 0] =
                                  IF has_b THEN new_grid ELSE grid]
              /\ pc = (IF has_b THEN "fill_returned" ELSE "wg_returned")
              /\ has_w => (failed_name = None /\ last_attempts >= 1)
              /\ has_w => AllPlaced(IF has_b THEN new_grid ELSE grid, wgroups)
              /\ has_b => (leftovers = <<>> /\ AllPlaced(new_grid, bofs)))
          /\ (outcome' \in FailedOutcomes =>
                 (files' = files /\ pc' = "exit"))
         ]_vars
    /\ [](outcome \in FailedOutcomes =>
             /\ has_w => files[OutPath(perm)] = NoFile
             /\ ~has_w => files[0] = grid)

\* The first schedule of two was written, and the second pass ended in a
\* failure with nothing written for it.
C14_Witness ==
    /\ outcome \in {"PlacementFailed", "FillLeftover"}
    /\ permutations = 2
    /\ perm = 2
    /\ files[1] # NoFile
    /\ files[2] = NoFile


----------------------------------------------------------------------------
\* The requests the readers hand to the core

\* Every request of the list has a name, and a length from 1 to the
\* max_length of its class and to the number of blocks.
WellFormed(reqs, max_length) ==
    \A i \in 1 .. Len(reqs) :
        /\ reqs[i].name # <<>>
        /\ 1 <= reqs[i].length
        /\ reqs[i].length <= max_length
        /\ reqs[i].length <= NUM_BLOCKS

\* C15: for every configuration load_config accepts and every input file,
\* each pair that read_wgroups or read_bofs has returned has a non-empty
\* name and a length with 1 <= length <= max_length of its class, hence
\* length <= the configured number of blocks.
C15_RequestsWellFormed ==
    /\ pc \in {"load_bofs", "read_bofs", "main"}
          => WellFormed(wgroups, cfg.wg_max_length)
    /\ pc = "main" => WellFormed(bofs, cfg.bof_max_length)

\* The reader of working groups is at a row that it neither skips nor fails
\* to parse, and the length of the row is outside 1 .. max_length.
AtOutOfRangeWG ==
    /\ pc = "read_wgroups"
    /\ AtRow
    /\ IF RowSkipped("WG", csv[row_num]) THEN FALSE
       ELSE IF ValueError(csv[row_num][cfg.length_column + 1]) THEN FALSE
       ELSE LET length == IntOf(csv[row_num][cfg.length_column + 1])
            IN  length < 1 \/ length > cfg.wg_max_length

----------------------------------------------------------------------------
\* The grid of an attempt

\* The requests the running attempt has placed so far.
PlacedPrefix == SubSeq(a_list, 1, pos - 1)

\* C17: at the start of every attempt of greedy_place_wgroups (the first
\* and every retry) the grid is entirely empty, so no cell written during a
\* failed attempt is visible in a later attempt or in the returned grid:
\* while an attempt runs and when its grid is returned, the occupied cells
\* are those of the requests this attempt has placed, and no others.
C17_FreshGridPerAttempt ==
    /\ [][attempt' = attempt + 1 =>
             /\ grid' = EmptyGrid
             /\ pos' = 1
             /\ pc' = "placing"]_vars
    /\ [](pc \in {"placing", "wg_returned"} =>
             /\ \A i \in 1 .. pos - 1 :
                   Cardinality(CellsOf(grid, a_list[i].name))
                       = a_list[i].length
             /\ Occupied(grid) = SumLengths(PlacedPrefix))

\* A retry is under way after an attempt that wrote cells and failed: the
\* second attempt has placed its first request, and the grid holds that
\* request only.
C17_Witness ==
    /\ pc = "placing"
    /\ attempt = 2
    /\ pos = 2
    /\ \A i \in 1 .. Len(wgroups) : wgroups[i].length <= NUM_BLOCKS
    /\ Occupied(grid) = a_list[1].length


----------------------------------------------------------------------------
\* The processing order

\* out is sample re-ordered as the strategy asks: a permutation of sample,
\* by length descending (largest_first) or ascending (smallest_first) with
\* requests of equal length in the order they have in sample, or sample
\* itself (as_is).
InOrder(strategy, sample, out) ==
    /\ Len(out) = Len(sample)
    /\ \E q \in PermsOf(Len(sample)) :
          /\ out = [i \in 1 .. Len(sample) |-> sample[q[i]]]
          /\ \A i, j \in 1 .. Len(sample) :
                i < j =>
                  CASE strategy = "largest_first" ->
                         \/ out[i].length > out[j].length
                         \/ out[i].length = out[j].length /\ q[i] < q[j]
                    [] strategy = "smallest_first" ->
                         \/ out[i].length < out[j].length
                         \/ out[i].length = out[j].length /\ q[i] < q[j]
                    [] OTHER -> q[i] < q[j]

\* C18: in every attempt of greedy_place_wgroups and in the pass of
\* fill_bofs the processed sequence is a permutation of the input list,
\* with lengths non-increasing under largest_first and non-decreasing under
\* smallest_first, requests of equal length in the relative order of the
\* random permutation, and the random permutation itself under as_is.
C18_ProcessingOrder ==
    /\ [](\A sample \in Samples(wgroups) \cup Samples(bofs) :
             InOrder(sort_strategy, sample,
                     ApplyStrategy(sort_strategy, sample)))
    /\ [][/\ attempt' = attempt + 1 =>
                \E sample \in Samples(wgroups) :
                    InOrder(sort_strategy, sample, a_list')
          /\ (pc # "filling" /\ pc' = "filling") =>
                \E sample \in Samples(bofs) :
                    InOrder(sort_strategy, sample, bof_list')
          /\ (pc = "placing" /\ pc' = "placing") => a_list' = a_list
          /\ (pc = "filling" /\ pc' = "filling") => bof_list' = bof_list
         ]_vars

\* An attempt under largest_first processes the longest request first and
\* then two requests of one length in the reverse of their input order: the
\* order of the random permutation, not of the input.
C18_Witness ==
    /\ pc = "placing"
    /\ sort_strategy = "largest_first"
    /\ Len(a_list) = 3
    /\ a_list[1].length > a_list[2].length
    /\ a_list[2].length = a_list[3].length
    /\ a_list[2].name = SessionName("WG", 3)
    /\ a_list[3].name = SessionName("WG", 1)


----------------------------------------------------------------------------
\* The start block of a placement

\* The start blocks at which some room has a free run of the length.
FeasibleStarts(g, length) ==
    {b \in 0 .. LastStart(length) :
        \E r \in Rooms : RunFree(g, b, r, length)}

\* The least block of a non-empty set of cells.
FirstBlock(cells) ==
    CHOOSE b \in Blocks :
        /\ \E c \in cells : c[1] = b
        /\ \A c \in cells : c[1] >= b

\* The request was placed by the step from before to after at the least
\* feasible start block of before.
AtEarliestStart(before, after, req) ==
    LET cells == CellsOf(after, req.name)
    IN  /\ cells # {}
        /\ FirstBlock(cells) \in FeasibleStarts(before, req.length)
        /\ \A b \in FeasibleStarts(before, req.length) :
              FirstBlock(cells) <= b

\* What the scan can select in g for the length: nothing when no start
\* block is feasible, else each room that is free at the least feasible
\* start block, and no other candidate.
EarliestChoices(g, length) ==
    IF FeasibleStarts(g, length) = {} THEN {NoCandidate}
    ELSE LET first == CHOOSE b \in FeasibleStarts(g, length) :
                         \A c \in FeasibleStarts(g, length) : b <= c
         IN  {<<first, r>> : r \in {r \in Rooms :
                                       RunFree(g, first, r, length)}}

\* C19: whenever a request of length L is placed at start block b, no room
\* has the cells b'..b'+L-1 all empty for any b' < b in the grid as it was
\* just before the placement: the chosen start block is the least feasible
\* one, and only the room within it depends on the random room order.
C19_EarliestStartFirstFit ==
    /\ [][/\ (pc = "placing" /\ grid' # grid) =>
                AtEarliestStart(grid, grid', a_list[pos])
          /\ (pc = "filling" /\ new_grid' # new_grid) =>
                AtEarliestStart(new_grid, new_grid', bof_list[bpos])
         ]_vars
    /\ [](/\ (pc = "placing" /\ pos <= Len(a_list)) =>
                Selectable(grid, a_list[pos].length, 0)
                    = EarliestChoices(grid, a_list[pos].length)
          /\ (pc = "filling" /\ bpos <= Len(bof_list)) =>
                Selectable(new_grid, bof_list[bpos].length, 0)
                    = EarliestChoices(new_grid, bof_list[bpos].length))

\* The third request of an attempt was placed at block 1 of a grid with two
\* rooms: block 0 was full, and block 2 was free as well but later.
C19_Witness ==
    /\ pc = "placing"
    /\ pos = 4
    /\ NUM_BLOCKS = 3
    /\ NUM_ROOMS = 2
    /\ CellsOf(grid, a_list[3].name) \in {{<<1, 0>>}, {<<1, 1>>}}
    /\ \A r \in Rooms : grid[0][r] # None /\ grid[2][r] = None


----------------------------------------------------------------------------
\* The cells a placement touches

\* Every candidate built for the length lies in the grid with its whole
\* run, whatever the shuffles; and there is a candidate exactly when the
\* length is at most the number of blocks.
CandidatesInside(length) ==
    \A orders \in ShuffleDraws(length) :
        LET candidates == Candidates(orders, 0, length)
        IN  /\ \A i \in 1 .. Len(candidates) :
                  /\ candidates[i][1] \in Blocks
                  /\ candidates[i][1] + length - 1 \in Blocks
                  /\ candidates[i][2] \in Rooms
            /\ (candidates = <<>>) <=> (length > NUM_BLOCKS)

\* g is a grid of NUM_BLOCKS rows of NUM_ROOMS cells in which no request
\* longer than the grid holds a cell.
NothingOutside(g, reqs) ==
    g # NoGrid =>
        /\ DOMAIN g = Blocks
        /\ \A b \in Blocks : DOMAIN g[b] = Rooms
        /\ \A i \in 1 .. Len(reqs) :
              reqs[i].length > NUM_BLOCKS => CellsOf(g, reqs[i].name) = {}

\* C20: every cell read or written by greedy_place_wgroups and fill_bofs has
\* its block in 0..blocks-1 and its room in 0..rooms-1, since only start
\* blocks with start + length <= blocks are candidates; a request longer
\* than the grid has no candidate and is reported as the failing request
\* (primary) or as leftover (fill), never placed in part or cut short.
C20_PlacementInsideGrid ==
    /\ [](/\ (pc = "placing" /\ pos <= Len(a_list)) =>
                CandidatesInside(a_list[pos].length)
          /\ (pc = "filling" /\ bpos <= Len(bof_list)) =>
                CandidatesInside(bof_list[bpos].length)
          /\ NothingOutside(grid, wgroups \o bofs)
          /\ NothingOutside(new_grid, wgroups \o bofs))
    /\ [][/\ (/\ pc = "placing" /\ pos <= Len(a_list)
              /\ a_list[pos].length > NUM_BLOCKS) =>
                /\ failed_name' = a_list[pos].name
                /\ grid' = grid
                /\ pc' = "attempt_loop"
          /\ (/\ pc = "filling" /\ bpos <= Len(bof_list)
              /\ bof_list[bpos].length > NUM_BLOCKS) =>
                /\ leftovers' = Append(leftovers, bof_list[bpos].name)
                /\ new_grid' = new_grid
                /\ bpos' = bpos + 1
         ]_vars

\* An attempt has placed a request and then failed on one that is longer
\* than the grid, although enough cells are free for its length.
C20_Witness ==
    /\ pc = "attempt_loop"
    /\ attempt >= 1
    /\ pos = 2
    /\ a_list[pos].length > NUM_BLOCKS
    /\ failed_name = a_list[pos].name
    /\ Occupied(grid) = a_list[1].length
    /\ FreeCells(grid) >= a_list[pos].length


----------------------------------------------------------------------------
\* Which requests fail

\* The step places the request: its name takes length cells of after, and
\* every other cell is as in before.
PlacedBy(before, after, req) ==
    /\ Cardinality(CellsOf(after, req.name)) = req.length
    /\ \A c \in Blocks \X Rooms :
          after[c[1]][c[2]] # req.name =>
              after[c[1]][c[2]] = before[c[1]][c[2]]

\* C21: a request is reported as failing (primary attempt) or appended to
\* leftover (fill) if and only if no pair (start block, room) has a run of
\* length cells all empty in the grid at the moment the request is
\* processed, and is placed otherwise; in particular a fill request of
\* length 1 is placed if and only if the grid has an empty cell.
C21_FirstFitCompleteness ==
    [][/\ (pc = "placing" /\ pos <= Len(a_list)) =>
             IF SomeRunFree(grid, a_list[pos].length)
             THEN /\ PlacedBy(grid, grid', a_list[pos])
                  /\ failed_name' = None
                  /\ pc' = "placing"
             ELSE /\ failed_name' = a_list[pos].name
                  /\ grid' = grid
                  /\ pc' = "attempt_loop"
       /\ (pc = "filling" /\ bpos <= Len(bof_list)) =>
             /\ IF SomeRunFree(new_grid, bof_list[bpos].length)
                THEN /\ PlacedBy(new_grid, new_grid', bof_list[bpos])
                     /\ leftovers' = leftovers
                ELSE /\ leftovers' = Append(leftovers, bof_list[bpos].name)
                     /\ new_grid' = new_grid
             /\ bof_list[bpos].length = 1 =>
                   ((leftovers' = leftovers) <=> (FreeCells(new_grid) >= 1))
      ]_vars

\* A BOF of length 2 has just been appended to leftovers although the grid
\* has two empty cells: they form no run.
C21_Witness ==
    /\ pc = "filling"
    /\ bpos > 1
    /\ bof_list[bpos - 1].length = 2
    /\ leftovers # <<>>
    /\ leftovers[Len(leftovers)] = bof_list[bpos - 1].name
    /\ NUM_BLOCKS >= 2
    /\ FreeCells(new_grid) >= 2


----------------------------------------------------------------------------
\* The empty blocks of a successful placement

\* The blocks of g in which no room holds a name.
EmptyBlocks(g) == {b \in Blocks : \A r \in Rooms : g[b][r] = None}

\* C22: on success greedy_place_wgroups returns as empty_rows precisely the
\* block indices whose row has no occupied cell in any room, in strictly
\* increasing order, and empty blocks never turn a successful placement
\* into a failure: the attempt that placed every request returns, and the
\* dispatcher goes on to the fill or writes the schedule.
C22_EmptyBlocksExact ==
    /\ [](pc = "wg_returned" =>
             /\ Range(empty_rows) = EmptyBlocks(grid)
             /\ \A i, j \in 1 .. Len(empty_rows) :
                   i < j => empty_rows[i] < empty_rows[j]
             /\ failed_name = None
             /\ outcome = "running")
    /\ [][/\ (pc = "placing" /\ pos > Len(a_list)) =>
                (pc' = "wg_returned" /\ grid' = grid /\ outcome' = "running")
          /\ pc = "wg_returned" =>
                /\ outcome' \notin FailedOutcomes
                /\ IF has_b THEN pc' = "filling"
                   ELSE files'[OutPath(perm)] = grid
         ]_vars

\* A placement has succeeded on a grid of three blocks of which the last
\* two are empty.
C22_Witness ==
    /\ pc = "wg_returned"
    /\ NUM_BLOCKS = 3
    /\ empty_rows = <<1, 2>>
    /\ Occupied(grid) >= 1


----------------------------------------------------------------------------
\* The attempts of greedy_place_wgroups

\* greedy_place_wgroups is running / has ended (by return or by exit).
InGreedy == pc \in {"attempt_loop", "placing"}
GreedyEnded == pc \in {"wg_returned", "exit"}

\* C23: greedy_place_wgroups always terminates; it runs the attempts 1, 2,
\* ... one after another, a new one only after the one before has failed,
\* stops at the first attempt that places every request, and never starts
\* more than max_tries attempts; on success last_attempts is the index of
\* that attempt, a value in 1..max_tries.
C23_BoundedRetry ==
    /\ InGreedy ~> GreedyEnded
    /\ [](InGreedy \/ pc = "wg_returned" =>
             /\ attempt >= 0
             /\ attempt <= max_tries
             /\ pc = "placing" => attempt >= 1)
    /\ [](pc = "wg_returned" =>
             /\ last_attempts = attempt
             /\ last_attempts \in 1 .. max_tries
             /\ pos = Len(wgroups) + 1)
    /\ [][/\ attempt' # attempt =>
                /\ attempt' = attempt + 1
                /\ pc = "attempt_loop" /\ pc' = "placing"
                /\ attempt < max_tries
                /\ attempt >= 1 =>
                      (pos <= Len(a_list) /\ failed_name = a_list[pos].name)
          /\ (pc = "placing" /\ pos > Len(a_list)) =>
                (pc' = "wg_returned" /\ last_attempts' = attempt
                 /\ attempt' = attempt)
          /\ (pc = "attempt_loop" /\ attempt >= max_tries) =>
                (pc' = "exit" /\ attempt' = attempt)
         ]_vars

\* The second of two attempts has placed every request after the first one
\* failed: the call returns with last_attempts = 2.
C23_Witness ==
    /\ pc = "wg_returned"
    /\ max_tries = 2
    /\ last_attempts = 2
    /\ attempt = 2


----------------------------------------------------------------------------
\* The two states of a fill request

\* The number of times name occurs in the sequence.
Occurrences(seq, name) == Cardinality({i \in 1 .. Len(seq) : seq[i] = name})

\* fill_bofs has returned new_grid and leftovers, and they are still what
\* it returned.
FillReturned ==
    \/ pc = "fill_returned"
    \/ pc = "exit" /\ has_b /\ outcome \in {"FillLeftover", "Written"}

\* C24: after fill_bofs returns (the fill names pairwise distinct and absent
\* from the input grid), every fill request is in exactly one of two
\* states: its name holds exactly its length cells of the returned grid and
\* is not in leftover, or its name is in leftover exactly once and in no
\* cell of the returned grid; leftover is no longer than the fill list.
C24_FillPartition ==
    FillReturned =>
        /\ \A i \in 1 .. Len(bofs) :
              LET held == Cardinality(CellsOf(new_grid, bofs[i].name))
                  left == Occurrences(leftovers, bofs[i].name)
              IN  /\ CellsOf(grid, bofs[i].name) = {}
                  /\ \/ held = bofs[i].length /\ left = 0
                     \/ held = 0 /\ left = 1
        /\ \A i, j \in 1 .. Len(bofs) :
              i # j => bofs[i].name # bofs[j].name
        /\ Len(leftovers) <= Len(bofs)

\* fill_bofs has returned from three requests with one placed and two left
\* over.
C24_Witness ==
    /\ pc = "fill_returned"
    /\ Len(bofs) = 3
    /\ Len(leftovers) = 2
    /\ Occupied(new_grid) > Occupied(grid)


----------------------------------------------------------------------------
\* The retry budget the dispatcher passes on

\* C25: in every run of the dispatcher, for any configuration accepted by
\* load_config and any --max-tries value, the max_tries that is passed to
\* greedy_place_wgroups is at least 1.
C25_RetryBudgetPositive ==
    (pc = "main" /\ has_w) => max_tries >= 1

====
